---------------------------- MODULE Spec2Model ----------------------------
(* Control loop of the Pico temperature reader (main.py as listed in       *)
(* src/iot_temperature_reader.md, lines 27-120): startup, connect(), run() *)
(* with send_reading(), and the top-level exception handlers.              *)
(*                                                                         *)
(* The script is single-threaded; the only asynchronous activity is the    *)
(* RGB LED blink timer started by led.blink().  External inputs are the    *)
(* answers of wlan.isconnected(), ntptime.settime(), sensor.measure() and  *)
(* requests.post(), each of which either returns or raises.                *)
EXTENDS Integers, Sequences, FiniteSets, TLC

VARIABLES
  pc,            \* position of the script
  led,           \* the RGBLED: [mode, color, value]
  attempts,      \* connect(): local attempts
  failures,      \* run(): local failures
  succeeded,     \* run(): local succeeded
  exc,           \* exception in flight / that ended the script
  resetCause,    \* machine.reset_cause(): "PWRON" or "SOFT"
  polls,         \* answers of wlan.isconnected() in this run
  samples,       \* calls of sensor.measure() in this run
  posts,         \* POSTs attempted to the readings URL in this run
  responses,     \* status codes received from the readings URL in this run
  logPosts,      \* POSTs attempted to DEBUG_URL in this run
  openResponses  \* response objects obtained and not yet closed

vars == <<pc, led, attempts, failures, succeeded, exc, resetCause, polls,
          samples, posts, responses, logPosts, openResponses>>

-----------------------------------------------------------------------------
(* Bounds *)

\* sampling cycles explored per run
MaxCycles == 6

-----------------------------------------------------------------------------
(* Program constants *)

\* connect(): `if attempts > 10`
MaxAttempts == 10

\* run(): `if failures >= 3`
HaltThreshold == 3

\* send_reading(): `response.status_code == 201`
Created == 201

\* status codes the two endpoints answer with
StatusCodes == {200, 201, 500}

-----------------------------------------------------------------------------
(* The RGB LED.  blink() writes the first colour at once and then a timer  *)
(* alternates it with (0, 0, 0); off() and the channel setters stop the    *)
(* timer; a channel setter (led.red = 255) reads the value being displayed *)
(* at that instant and replaces one channel of it.                         *)

Black == <<0, 0, 0>>
White == <<1, 1, 1>>
Red   == <<1, 0, 0>>
Green == <<0, 1, 0>>
Blue  == <<0, 0, 1>>

Blink(c) == [mode |-> "blink", color |-> c, value |-> c]

LedOff == [mode |-> "solid", color |-> Black, value |-> Black]

SetRed(l) ==
  LET v == <<1, l.value[2], l.value[3]>>
  IN  [mode |-> "solid", color |-> v, value |-> v]

SetBlue(l) ==
  LET v == <<l.value[1], l.value[2], 1>>
  IN  [mode |-> "solid", color |-> v, value |-> v]

\* what an observer sees: the colour and whether it blinks, is steady or off
Pattern(l) ==
  IF l.mode = "blink" THEN [color |-> l.color, mode |-> "blinking"]
  ELSE IF l.value = Black THEN [color |-> Black, mode |-> "off"]
  ELSE [color |-> l.value, mode |-> "solid"]

-----------------------------------------------------------------------------
(* Pure helpers of the script *)

\* slip: the ceiling compared with >=
TimedOutEarly(a) == a >= MaxAttempts

\* slip: a larger ceiling than intended
TimedOutLate(a) == a > MaxAttempts + 2

TimedOut(a) == a > MaxAttempts

\* slip: the threshold compared with >
HaltsLate(f) == f > HaltThreshold

\* slip: the loop gives up one failure early
HaltsAtTwo(f) == f >= HaltThreshold - 1

Halts(f) == f >= HaltThreshold

\* slip: a success leaves the count as it was
FailuresAfterNoReset(f, ok) == IF ok THEN f ELSE f + 1

\* run(): failures += 1 on a failed send, failures = 0 on a successful one
FailuresAfter(f, ok) == IF ok THEN 0 ELSE f + 1

\* slip: every 2xx answer taken for success
IsCreatedAny2xx(code) == code \in 200..299

IsCreated(code) == code = Created

\* requests.post() returned a response object
Open(n) == n + 1

\* slip: the response is never closed
CloseForgotten(n) == n

\* response.close()
Close(n) == n - 1

-----------------------------------------------------------------------------
(* Start of main.py: RGBLED(...) and indicator.blink(white) *)

ColdStart(cause) ==
  /\ pc' = "startup"
  /\ led' = Blink(White)
  /\ attempts' = 0
  /\ failures' = 0
  /\ succeeded' = FALSE
  /\ exc' = "none"
  /\ resetCause' = cause
  /\ polls' = <<>>
  /\ samples' = 0
  /\ posts' = 0
  /\ responses' = <<>>
  /\ logPosts' = 0
  /\ openResponses' = 0

Init ==
  /\ pc = "startup"
  /\ led = Blink(White)
  /\ attempts = 0
  /\ failures = 0
  /\ succeeded = FALSE
  /\ exc = "none"
  /\ resetCause = "PWRON"
  /\ polls = <<>>
  /\ samples = 0
  /\ posts = 0
  /\ responses = <<>>
  /\ logPosts = 0
  /\ openResponses = 0

\* the blink timer fires: the LED shows the other colour of the pair
BlinkTick ==
  /\ led.mode = "blink"
  /\ led' = [led EXCEPT !.value = IF led.value = Black THEN led.color ELSE Black]
  /\ UNCHANGED <<pc, attempts, failures, succeeded, exc, resetCause, polls,
                 samples, posts, responses, logPosts, openResponses>>

\* sleep(4); temp_sensor = DHT11(...)
StartupDelay ==
  /\ pc = "startup"
  /\ pc' = "connect"
  /\ UNCHANGED <<led, attempts, failures, succeeded, exc, resetCause, polls,
                 samples, posts, responses, logPosts, openResponses>>

\* connect(): blink blue, wlan.connect(), attempts = 0
ConnectBegin ==
  /\ pc = "connect"
  /\ led' = Blink(Blue)
  /\ attempts' = 0
  /\ pc' = "polling"
  /\ UNCHANGED <<failures, succeeded, exc, resetCause, polls,
                 samples, posts, responses, logPosts, openResponses>>

\* connect(): wlan.isconnected() is False: one turn of the while loop
PollFail ==
  /\ pc = "polling"
  /\ polls' = Append(polls, FALSE)
  /\ attempts' = attempts + 1
  /\ IF TimedOut(attempts + 1)
       THEN /\ pc' = "timedout"
            /\ exc' = "WiFiConnectionTimeout"
       ELSE /\ pc' = "polling"
            /\ exc' = exc
  /\ UNCHANGED <<led, failures, succeeded, resetCause,
                 samples, posts, responses, logPosts, openResponses>>

\* slip: connect() returns without led.off()
PollSuccessNoOff ==
  /\ pc = "polling"
  /\ polls' = Append(polls, TRUE)
  /\ pc' = "connected"
  /\ UNCHANGED <<led, attempts, failures, succeeded, exc, resetCause,
                 samples, posts, responses, logPosts, openResponses>>

\* connect(): wlan.isconnected() is True: leave the loop, led.off(), return
PollSuccess ==
  /\ pc = "polling"
  /\ polls' = Append(polls, TRUE)
  /\ led' = LedOff
  /\ pc' = "connected"
  /\ UNCHANGED <<attempts, failures, succeeded, exc, resetCause,
                 samples, posts, responses, logPosts, openResponses>>

\* slip: the handler swallows the timeout and the script goes on to run()
ResetSkipped ==
  /\ pc = "timedout"
  /\ exc' = "none"
  /\ pc' = "connected"
  /\ UNCHANGED <<led, attempts, failures, succeeded, resetCause, polls,
                 samples, posts, responses, logPosts, openResponses>>

\* slip: the handler calls connect() again instead of restarting
ResetRetriesInPlace ==
  /\ pc = "timedout"
  /\ led' = Blink(Blue)
  /\ attempts' = 0
  /\ exc' = "none"
  /\ pc' = "polling"
  /\ UNCHANGED <<failures, succeeded, resetCause, polls,
                 samples, posts, responses, logPosts, openResponses>>

\* except WiFiConnectionTimeout: machine.reset()
ResetOnTimeout ==
  /\ pc = "timedout"
  /\ ColdStart("SOFT")

\* run(): ntptime.settime() returns; failures = 0
RunBegin ==
  /\ pc = "connected"
  /\ failures' = 0
  /\ pc' = "loop"
  /\ UNCHANGED <<led, attempts, succeeded, exc, resetCause, polls,
                 samples, posts, responses, logPosts, openResponses>>

\* run(): ntptime.settime() raises
RunSettimeFault ==
  /\ pc = "connected"
  /\ exc' = "settime"
  /\ pc' = "fault"
  /\ UNCHANGED <<led, attempts, failures, succeeded, resetCause, polls,
                 samples, posts, responses, logPosts, openResponses>>

\* slip: the failed read is caught and booked like a failed send
CycleSensorFaultCounted ==
  /\ pc = "loop"
  /\ samples < MaxCycles
  /\ samples' = samples + 1
  /\ succeeded' = FALSE
  /\ failures' = FailuresAfter(failures, FALSE)
  /\ IF Halts(FailuresAfter(failures, FALSE))
       THEN /\ led' = SetRed(Blink(Red))
            /\ pc' = "halted"
       ELSE /\ led' = Blink(Red)
            /\ pc' = "loop"
  /\ UNCHANGED <<attempts, exc, resetCause, polls,
                 posts, responses, logPosts, openResponses>>

\* one turn of `while True`: sensor.measure() raises
CycleSensorFault ==
  /\ pc = "loop"
  /\ samples < MaxCycles
  /\ samples' = samples + 1
  /\ exc' = "sensor"
  /\ pc' = "fault"
  /\ UNCHANGED <<led, attempts, failures, succeeded, resetCause, polls,
                 posts, responses, logPosts, openResponses>>

\* one turn of `while True`: requests.post() in send_reading() raises
CycleTransportFault ==
  /\ pc = "loop"
  /\ samples < MaxCycles
  /\ samples' = samples + 1
  /\ posts' = posts + 1
  /\ exc' = "transport"
  /\ pc' = "fault"
  /\ UNCHANGED <<led, attempts, failures, succeeded, resetCause, polls,
                 responses, logPosts, openResponses>>

\* slip: the third failure raises instead of `break`
CycleResponseRaisesOnHalt(code) ==
  /\ pc = "loop"
  /\ samples < MaxCycles
  /\ samples' = samples + 1
  /\ posts' = posts + 1
  /\ responses' = Append(responses, code)
  /\ openResponses' = Close(Open(openResponses))
  /\ succeeded' = IsCreated(code)
  /\ failures' = FailuresAfter(failures, IsCreated(code))
  /\ IF ~IsCreated(code)
       THEN IF Halts(FailuresAfter(failures, FALSE))
              THEN /\ led' = SetRed(Blink(Red))
                   /\ exc' = "halt"
                   /\ pc' = "fault"
              ELSE /\ led' = Blink(Red)
                   /\ exc' = exc
                   /\ pc' = "loop"
       ELSE /\ led' = Blink(Green)
            /\ exc' = exc
            /\ pc' = "loop"
  /\ UNCHANGED <<attempts, resetCause, polls, logPosts>>

\* one turn of `while True`: the collector answers with a status code
CycleResponse(code) ==
  /\ pc = "loop"
  /\ samples < MaxCycles
  /\ samples' = samples + 1
  /\ posts' = posts + 1
  /\ responses' = Append(responses, code)
  /\ openResponses' = Close(Open(openResponses))
  /\ succeeded' = IsCreated(code)
  /\ failures' = FailuresAfter(failures, IsCreated(code))
  /\ IF ~IsCreated(code)
       THEN IF Halts(FailuresAfter(failures, FALSE))
              THEN /\ led' = SetRed(Blink(Red))
                   /\ pc' = "halted"
              ELSE /\ led' = Blink(Red)
                   /\ pc' = "loop"
       ELSE /\ led' = Blink(Green)
            /\ pc' = "loop"
  /\ UNCHANGED <<attempts, exc, resetCause, polls, logPosts>>

\* slip: the handler ends with machine.reset() instead of raise
ReportDeliveredThenReset(code) ==
  /\ pc = "fault"
  /\ ColdStart("SOFT")

\* except Exception: the POST to DEBUG_URL returns; close, blue = 255, raise
ReportDelivered(code) ==
  /\ pc = "fault"
  /\ logPosts' = logPosts + 1
  /\ openResponses' = Close(Open(openResponses))
  /\ led' = SetBlue(led)
  /\ pc' = "terminated"
  /\ UNCHANGED <<attempts, failures, succeeded, exc, resetCause, polls,
                 samples, posts, responses>>

\* slip: a report that could not be sent is tried again
ReportRetried ==
  /\ pc = "fault"
  /\ logPosts' = logPosts + 1
  /\ UNCHANGED <<pc, led, attempts, failures, succeeded, exc, resetCause,
                 polls, samples, posts, responses, openResponses>>

\* except Exception: the POST to DEBUG_URL itself raises
ReportTransportFault ==
  /\ pc = "fault"
  /\ logPosts' = logPosts + 1
  /\ exc' = "report"
  /\ pc' = "terminated"
  /\ UNCHANGED <<led, attempts, failures, succeeded, resetCause, polls,
                 samples, posts, responses, openResponses>>

\* the board is unplugged and plugged in again: main.py runs from the top
PowerCycle ==
  /\ pc # "startup"
  /\ ColdStart("PWRON")

Next ==
  \/ BlinkTick
  \/ StartupDelay
  \/ ConnectBegin
  \/ PollFail
  \/ PollSuccess
  \/ ResetOnTimeout
  \/ RunBegin
  \/ RunSettimeFault
  \/ CycleSensorFault
  \/ CycleTransportFault
  \/ \E code \in StatusCodes : CycleResponse(code)
  \/ \E code \in StatusCodes : ReportDelivered(code)
  \/ ReportTransportFault
  \/ PowerCycle

Spec == Init /\ [][Next]_vars

\* the steps main.py takes by itself
Script ==
  \/ StartupDelay
  \/ ConnectBegin
  \/ PollFail
  \/ PollSuccess
  \/ ResetOnTimeout
  \/ RunBegin
  \/ RunSettimeFault
  \/ CycleSensorFault
  \/ CycleTransportFault
  \/ \E code \in StatusCodes : CycleResponse(code)
  \/ \E code \in StatusCodes : ReportDelivered(code)
  \/ ReportTransportFault

\* the script and the blink timer keep running; nobody has to power-cycle
FairSpec == Spec /\ WF_vars(Script) /\ WF_vars(BlinkTick)

-----------------------------------------------------------------------------
(* The states of the device and the indicator assigned to each, as listed  *)
(* in the comment above connect().                                         *)

DeviceState ==
  CASE pc \in {"startup", "connect"} -> "Starting"
    [] pc \in {"polling", "timedout"} -> "ConnectingNetwork"
    [] pc \in {"connected", "loop", "fault"} ->
         IF responses = <<>> THEN "NetworkConnected"
         ELSE IF succeeded THEN "ReportingOk" ELSE "ReportingFailed"
    [] pc = "halted" -> "Halted"
    [] pc = "terminated" -> "UnexpectedFault"

IndicatorTable(st) ==
  CASE st = "Starting" -> [color |-> White, mode |-> "blinking"]
    [] st = "ConnectingNetwork" -> [color |-> Blue, mode |-> "blinking"]
    [] st = "NetworkConnected" -> [color |-> Black, mode |-> "off"]
    [] st = "ReportingOk" -> [color |-> Green, mode |-> "blinking"]
    [] st = "ReportingFailed" -> [color |-> Red, mode |-> "blinking"]
    [] st = "Halted" -> [color |-> Red, mode |-> "solid"]
    [] st = "UnexpectedFault" -> [color |-> Blue, mode |-> "solid"]

-----------------------------------------------------------------------------
(* Properties *)

\* a transmit counts as failed when the status received is not "created"
Failed(code) == code # Created

\* the last n statuses received were all failures
LastFailed(n) ==
  /\ Len(responses) >= n
  /\ \A i \in (Len(responses) - n + 1)..Len(responses) : Failed(responses[i])

\* responses contains n failures in a row somewhere
HasFailureRun(n) ==
  \E i \in 1..Len(responses) :
    /\ i + n - 1 <= Len(responses)
    /\ \A j \in i..(i + n - 1) : Failed(responses[j])

\* number of polls answered False
FailedPolls == Cardinality({i \in 1..Len(polls) : ~polls[i]})

\* an external restart, as opposed to machine.reset()
ExternalRestart == pc' = "startup" /\ resetCause' = "PWRON"

\* C1: once three transmits in a row have failed the loop is halted, and
\* while halted no sensor sample and no transmission is made; halted is left
\* only by an external restart.
C1_HaltAfterThreeFailures ==
  /\ [](LastFailed(HaltThreshold) => pc = "halted")
  /\ [][pc = "halted" =>
          \/ (pc' = "halted" /\ samples' = samples /\ posts' = posts)
          \/ ExternalRestart]_vars

C1_Witness ==
  /\ pc = "halted"
  /\ LastFailed(HaltThreshold)
  /\ samples = HaltThreshold

\* C2: as long as the statuses received contain no three failures in a row,
\* the loop has not halted and failures is below 3.
C2_NoHaltWithoutFailureRun ==
  ~HasFailureRun(HaltThreshold) => (pc # "halted" /\ failures < HaltThreshold)

C2_Witness ==
  /\ Len(responses) = 5
  /\ Failed(responses[1]) /\ Failed(responses[2]) /\ ~Failed(responses[3])
  /\ Failed(responses[4]) /\ Failed(responses[5])
  /\ pc = "loop"
  /\ failures = 2

\* C3: k failed polls (0 <= k <= 10) followed by a successful one: connect()
\* has returned without timing out, and the indicator is off when it returns.
C3_ConnectWithinCeiling ==
  \A k \in 0..MaxAttempts :
    ( /\ Len(polls) = k + 1
      /\ polls[k + 1]
      /\ \A i \in 1..k : ~polls[i] )
    => /\ pc \notin {"startup", "connect", "polling", "timedout"}
       /\ exc # "WiFiConnectionTimeout"
       /\ (pc = "connected" => Pattern(led).mode = "off")

C3_Witness ==
  /\ pc = "connected"
  /\ Len(polls) = MaxAttempts + 1
  /\ polls[MaxAttempts + 1]
  /\ FailedPolls = MaxAttempts

\* C4: eleven failed polls end connect() with WiFiConnectionTimeout and no
\* poll of that call succeeds; connect() times out after no fewer than
\* eleven failed polls.
C4_TimeoutAtElevenFailedPolls ==
  /\ FailedPolls <= MaxAttempts + 1
  /\ FailedPolls = MaxAttempts + 1 =>
       /\ pc = "timedout"
       /\ exc = "WiFiConnectionTimeout"
       /\ \A i \in 1..Len(polls) : ~polls[i]
  /\ pc = "timedout" => FailedPolls = MaxAttempts + 1

C4_Witness ==
  /\ pc = "timedout"
  /\ FailedPolls = MaxAttempts + 1

\* C5: when connect() has timed out the sampling loop has not run; the
\* script does nothing more in that run (only the blink timer still ticks)
\* and the next step of the script is a restart into startup with both
\* counters at zero and nothing of the run kept.
C5_TimeoutRestarts ==
  /\ [](pc = "timedout" => samples = 0 /\ posts = 0 /\ responses = <<>>)
  /\ [][pc = "timedout" =>
          \/ /\ pc' = "timedout"
             /\ UNCHANGED <<attempts, failures, samples, posts, responses>>
          \/ /\ pc' = "startup"
             /\ Pattern(led') = [color |-> White, mode |-> "blinking"]
             /\ failures' = 0
             /\ attempts' = 0
             /\ polls' = <<>>
             /\ samples' = 0
             /\ posts' = 0
             /\ exc' = "none"]_vars

C5_Witness ==
  /\ pc = "startup"
  /\ resetCause = "SOFT"
  /\ attempts = 0
  /\ failures = 0

\* a step in which the POST of a reading was attempted and raised
TransportFaultStep == posts' = posts + 1 /\ Len(responses') = Len(responses)

\* a step in which sensor.measure() was called and raised
SensorFaultStep == samples' = samples + 1 /\ posts' = posts

\* what a failed cycle does: count it, show red, stay in run()
BookedAsFailure ==
  /\ failures' = failures + 1
  /\ Pattern(led').color = Red
  /\ pc' \in {"loop", "halted"}
  /\ pc' = "halted" <=> failures' >= HaltThreshold
  /\ exc' = exc

\* C6: a transport fault of the POST to the collector is handled like a
\* non-201 status: failures is incremented, the failure indicator is shown
\* and the loop goes on or halts, nothing propagating out of run().
C6_TransportFaultIsFailure == [][TransportFaultStep => BookedAsFailure]_vars

\* C7 as claimed: a sensor fault is booked as a transmit failure of that
\* cycle and the loop goes on.
C7_SensorFaultIsFailure == [][SensorFaultStep => BookedAsFailure]_vars

\* C7: a sensor fault is not booked as a transmit failure: failures, the
\* indicator and the statuses received stay as they were, and the fault
\* leaves run() for the top-level handler, ending the sampling loop.
C7_SensorFaultEscapes ==
  [][SensorFaultStep =>
       /\ failures' = failures
       /\ led' = led
       /\ responses' = responses
       /\ exc' = "sensor"
       /\ pc' = "fault"]_vars

C7_Witness ==
  /\ pc = "fault"
  /\ exc = "sensor"
  /\ failures = 1
  /\ samples = 2
  /\ posts = 1

\* C8: once the handler of an escaped fault has run, exactly one POST to the
\* log endpoint has been attempted, no new fault was raised by the report,
\* the indicator shows the unexpected-fault pattern, and the run has sampled
\* no more than it had when the fault escaped.
C8_ReporterNeverFails ==
  pc = "terminated" =>
    /\ logPosts = 1
    /\ exc \in {"settime", "sensor", "transport"}
    /\ Pattern(led) = IndicatorTable("UnexpectedFault")
    /\ samples <= Len(responses) + 1

C10_IndicatorMatchesTable == Pattern(led) = IndicatorTable(DeviceState)

\* the handler of an escaped fault got its answer from DEBUG_URL and went on
\* to indicator.blue = 255
ReportedStep == pc = "fault" /\ pc' = "terminated" /\ exc' = exc

\* C11: on entering UnexpectedFault the indicator is solid blue with red and
\* green off, whatever was displayed when the fault occurred.
C11_FaultIndicatorIgnoresHistory ==
  [][ReportedStep => Pattern(led') = IndicatorTable("UnexpectedFault")]_vars

\* length of the run of failed transmits that ends the statuses received
RECURSIVE TrailingFailures(_)
TrailingFailures(s) ==
  IF s = <<>> THEN 0
  ELSE IF Failed(s[Len(s)]) THEN 1 + TrailingFailures(SubSeq(s, 1, Len(s) - 1))
  ELSE 0

\* statuses of the scenario F, F, S, F, F, F
IsScenarioFFSFFF(s) ==
  /\ Len(s) = 6
  /\ Failed(s[1]) /\ Failed(s[2]) /\ ~Failed(s[3])
  /\ Failed(s[4]) /\ Failed(s[5]) /\ Failed(s[6])

\* C12: failures always equals the length of the run of failed transmits
\* that ends the statuses received so far (so F,F,S,F,F,F counts 1,2,0,1,2,3),
\* and after F,F,S,F,F,F the loop has halted in the 6th cycle showing solid
\* red.
C12_CountIsTrailingFailureRun ==
  /\ failures = TrailingFailures(responses)
  /\ IsScenarioFFSFFF(responses) =>
       /\ pc = "halted"
       /\ samples = 6
       /\ Pattern(led) = [color |-> Red, mode |-> "solid"]

C12_Witness ==
  /\ IsScenarioFFSFFF(responses)
  /\ failures = 3
  /\ pc = "halted"

\* C13: a cycle that received a status is booked as a success exactly when
\* the status is 201: then succeeded is true, failures is 0 and green blinks;
\* with any other status succeeded is false, failures grows by one and the
\* indicator is red.
C13_SuccessIffCreated ==
  [][Len(responses') = Len(responses) + 1 =>
       LET code == responses'[Len(responses')]
       IN  /\ succeeded' <=> (code = 201)
           /\ code = 201 =>
                /\ failures' = 0
                /\ Pattern(led') = [color |-> Green, mode |-> "blinking"]
           /\ code # 201 =>
                /\ failures' = failures + 1
                /\ Pattern(led').color = Red]_vars

C13_Witness ==
  /\ responses # <<>>
  /\ responses[Len(responses)] = 200
  /\ ~succeeded
  /\ failures = 1
  /\ Pattern(led) = [color |-> Red, mode |-> "blinking"]

\* C14: once three transmits in a row have failed, no POST to the log
\* endpoint has been made, no fault is in flight and the device is not in
\* UnexpectedFault; the halted device never goes on to the fault handler.
C14_HaltIsNotReported ==
  /\ [](LastFailed(HaltThreshold) =>
          /\ logPosts = 0
          /\ exc = "none"
          /\ pc \notin {"fault", "terminated"}
          /\ DeviceState # "UnexpectedFault")
  /\ [][pc = "halted" => (pc' \in {"halted", "startup"} /\ logPosts' = 0)]_vars

C14_Witness ==
  /\ pc = "halted"
  /\ logPosts = 0
  /\ DeviceState = "Halted"
  /\ Len(responses) = 4

\* C15: no response object is open in any state between two steps of the
\* script: not at the start of a cycle, not at halt, not when the script has
\* ended, whatever the status codes were.
C15_ResponsesReleased == openResponses = 0

C15_Witness ==
  /\ pc = "terminated"
  /\ logPosts = 1
  /\ exc = "sensor"
  /\ Len(responses) = 2
  /\ responses[1] = 500
  /\ responses[2] = 201
  /\ openResponses = 0

\* C16: every start shows the Starting pattern with nothing polled or
\* sampled yet, and the script positions follow one another only in the
\* order startup (the delay), connect, polling, connected, loop: connect()
\* is entered only after the delay and run() only after connect().
C16_DelayBeforeConnectAndLoop ==
  /\ [](pc = "startup" =>
          /\ Pattern(led) = [color |-> White, mode |-> "blinking"]
          /\ polls = <<>>
          /\ samples = 0
          /\ posts = 0)
  /\ [][/\ (pc' = "startup" /\ pc # "startup") =>
             Pattern(led') = [color |-> White, mode |-> "blinking"]
        /\ (pc' = "connect" /\ pc # "connect") => pc = "startup"
        /\ (pc' = "polling" /\ pc # "polling") => pc = "connect"
        /\ (pc' = "connected" /\ pc # "connected") => pc = "polling"
        /\ (pc' = "loop" /\ pc # "loop") => pc = "connected"
        /\ Len(polls') > Len(polls) => pc = "polling"
        /\ samples' > samples => pc = "loop"]_vars

C16_Witness ==
  /\ pc = "loop"
  /\ resetCause = "SOFT"
  /\ samples = 1

\* C17: connect() ends whatever the network answers: attempts and the number
\* of polls never exceed 11, every step of connect() either asks one more
\* poll or leaves the loop as connected or timed out, and a connect() in
\* progress is eventually over.
C17_ConnectTerminates ==
  /\ [](attempts <= MaxAttempts + 1 /\ Len(polls) <= MaxAttempts + 1)
  /\ [][pc = "polling" =>
          \/ pc' = "polling" /\ polls' = polls
          \/ pc' = "polling" /\ Len(polls') = Len(polls) + 1
          \/ pc' \in {"connected", "timedout"} /\ Len(polls') = Len(polls) + 1
          \/ ExternalRestart]_vars
  /\ (pc = "polling") ~> (pc \in {"connected", "timedout", "startup"})

C17_Witness ==
  /\ pc = "timedout"
  /\ attempts = MaxAttempts + 1
  /\ Len(polls) = MaxAttempts + 1

\* C18: at most one POST to the log endpoint is attempted per run, it is
\* attempted only by the handler of a fault that escaped run(), and none has
\* been made while starting, connecting, timed out, cycling or halted.
C18_LogPostOnceAfterFault ==
  /\ [](/\ logPosts <= 1
        /\ logPosts = 1 <=> pc = "terminated"
        /\ pc = "terminated" => exc \in {"settime", "sensor", "transport", "report"})
  /\ [][logPosts' > logPosts =>
          /\ pc = "fault"
          /\ exc \in {"settime", "sensor", "transport"}
          /\ logPosts' = 1]_vars

C18_Witness ==
  /\ pc = "terminated"
  /\ logPosts = 1
  /\ exc = "transport"

\* C19: when connect() has given up, the indicator shows no light until the
\* device restarts.
C19_NoLightAfterTimeout == pc = "timedout" => Pattern(led).mode = "off"

\* C20: failures stays within 0..3, and it is 3 exactly when the sampling
\* loop has halted.
C20_CountThreeIffHalted ==
  /\ failures \in 0..HaltThreshold
  /\ failures = HaltThreshold <=> pc = "halted"

C20_Witness ==
  /\ pc = "halted"
  /\ failures = HaltThreshold
  /\ Len(responses) = MaxCycles

=============================================================================
